---- MODULE Spec2Model ----
(***************************************************************************)
(* Model of cmd/hello/hello.go: the hello.ipn.dev demonstration server.    *)
(* Strings are TLA+ strings (byte sequences over ASCII); the process is    *)
(* main, the two listener goroutines, and one request at a time running    *)
(* the handler root statement group by statement group.                    *)
(***************************************************************************)
EXTENDS Integers, Sequences, FiniteSets, TLC

VARIABLES
    httpAddr,          \* *httpAddr  after flag.Parse
    httpsAddr,         \* *httpsAddr after flag.Parse
    embeddedTemplate,  \* the go:embed string, fixed at build time
    tmpl,              \* package variable tmpl (compiled template)
    mainpc,            \* position of main
    proc,              \* "running", or how the process ended
    listener,          \* state of each listener goroutine
    errc,              \* the buffered channel errc
    nreq,              \* requests accepted so far
    rpc,               \* position of root in the current request
    r,                 \* the *http.Request
    w,                 \* what has been written to the http.ResponseWriter
    ip,                \* root's local ip
    ltmpl,             \* root's local tmpl (shadows the package variable)
    who,               \* root's local who
    err,               \* root's local err ("" is nil)
    data,              \* root's local data
    reply,             \* what the local daemon answered to whoIs
    stages             \* the statement groups of root this request has run

vars == <<httpAddr, httpsAddr, embeddedTemplate, tmpl, mainpc, proc, listener,
          errc, nreq, rpc, r, w, ip, ltmpl, who, err, data, reply, stages>>

flagVars == <<httpAddr, httpsAddr, embeddedTemplate>>
procVars == <<tmpl, mainpc, proc, listener, errc>>
reqVars  == <<nreq, rpc, r, w, ip, ltmpl, who, err, data, reply, stages>>

----------------------------------------------------------------------------
(* Bounds *)

\* requests the model accepts in one run
MaxRequests == 2
\* how far past the truncation limit the longest daemon reply body goes
MaxOver == 2

----------------------------------------------------------------------------
(* String helpers: the Go string functions the code calls *)

Min(a, b) == IF a < b THEN a ELSE b

\* s[i] as a one-byte string, i counted from 1
At(s, i) == SubSeq(s, i, i)

\* strings.Index(s, sub) for a one-byte sub: first position (0-based), or -1
Index(s, c) ==
    IF \E i \in 1..Len(s) : At(s, i) = c
    THEN (CHOOSE i \in 1..Len(s) :
             At(s, i) = c /\ \A j \in 1..(i - 1) : At(s, j) # c) - 1
    ELSE -1

\* the last position (0-based) of byte c in s, or -1
LastIndex(s, c) ==
    IF \E i \in 1..Len(s) : At(s, i) = c
    THEN (CHOOSE i \in 1..Len(s) :
             At(s, i) = c /\ \A j \in (i + 1)..Len(s) : At(s, j) # c) - 1
    ELSE -1

\* strings.Contains(s, sub)
Contains(s, sub) ==
    \E i \in 1..(Len(s) - Len(sub) + 1) : SubSeq(s, i, i + Len(sub) - 1) = sub

\* strings.HasPrefix(s, p)
HasPrefix(s, p) == Len(s) >= Len(p) /\ SubSeq(s, 1, Len(p)) = p

\* s[lo:hi] with Go's 0-based half-open bounds
Slice(s, lo, hi) == SubSeq(s, lo + 1, hi)

RECURSIVE Repeat(_, _)
\* strings.Repeat(s, n), built by doubling
Repeat(s, n) ==
    IF n <= 0 THEN ""
    ELSE IF n = 1 THEN s
    ELSE LET h == Repeat(s, n \div 2)
         IN  h \o h \o (IF n % 2 = 1 THEN s ELSE "")

----------------------------------------------------------------------------
(* firstLabel *)

\* firstLabel cutting at the last period instead of the first
firstLabelLastPeriod(s) ==
    LET i == LastIndex(s, ".")
    IN  IF i # -1 THEN Slice(s, 0, i) ELSE s

\* firstLabel(s): s up until the first period, if any
firstLabel(s) ==
    LET i == Index(s, ".")
    IN  IF i # -1 THEN Slice(s, 0, i) ELSE s

----------------------------------------------------------------------------
(* net.SplitHostPort, as root calls it on r.RemoteAddr *)

AddrErr(why) == [host |-> "", port |-> "", err |-> why]

SplitHostPort(hostport) ==
    LET i == LastIndex(hostport, ":")
        n == Len(hostport)
    IN  IF i < 0 THEN AddrErr("missing port in address")
        ELSE IF At(hostport, 1) = "["
        THEN LET end == Index(hostport, "]")
             IN  IF end < 0 THEN AddrErr("missing ']' in address")
                 ELSE IF end + 1 = n THEN AddrErr("missing port in address")
                 ELSE IF end + 1 # i
                 THEN IF At(hostport, end + 2) = ":"
                      THEN AddrErr("too many colons in address")
                      ELSE AddrErr("missing port in address")
                 ELSE IF Index(Slice(hostport, 1, n), "[") >= 0
                 THEN AddrErr("unexpected '[' in address")
                 ELSE IF Index(Slice(hostport, end + 1, n), "]") >= 0
                 THEN AddrErr("unexpected ']' in address")
                 ELSE [host |-> Slice(hostport, 1, end),
                       port |-> Slice(hostport, i + 1, n), err |-> ""]
        ELSE LET host == Slice(hostport, 0, i)
             IN  IF Index(host, ":") >= 0
                 THEN AddrErr("too many colons in address")
                 ELSE IF Index(hostport, "[") >= 0
                 THEN AddrErr("unexpected '[' in address")
                 ELSE IF Index(hostport, "]") >= 0
                 THEN AddrErr("unexpected ']' in address")
                 ELSE [host |-> host,
                       port |-> Slice(hostport, i + 1, n), err |-> ""]

----------------------------------------------------------------------------
(* whoIs *)

\* the truncation limit of whoIs (max := 200)
max == 200

\* what %q writes for one byte (the bytes the model's bodies are made of)
QuoteByte(c) ==
    IF c = "\"" THEN "\\\""
    ELSE IF c = "\\" THEN "\\\\"
    ELSE IF c = "\n" THEN "\\n"
    ELSE c

RECURSIVE QuoteBytes(_)
\* every byte of s quoted, in order (split in halves to bound the nesting)
QuoteBytes(s) ==
    IF Len(s) = 0 THEN ""
    ELSE IF Len(s) = 1 THEN QuoteByte(s)
    ELSE LET m == Len(s) \div 2
         IN  QuoteBytes(SubSeq(s, 1, m)) \o QuoteBytes(SubSeq(s, m + 1, Len(s)))

\* fmt's %q verb: a double-quoted, escaped Go string literal
Quote(s) == "\"" \o QuoteBytes(s) \o "\""

\* tailcfg.WhoIsResponse, the fields root reads
WhoIsResponse(dn, ln, pic, cn, os) ==
    [UserProfile |-> [DisplayName |-> dn, LoginName |-> ln, ProfilePicURL |-> pic],
     Node |-> [ComputedName |-> cn, Hostinfo |-> [OS |-> os]]]

NilWho == WhoIsResponse("", "", "", "", "")

\* the JSON text of a WhoIsResponse, as the local daemon writes it
WhoIsJSON(x) ==
    "{\"Node\":{\"ComputedName\":\"" \o x.Node.ComputedName
    \o "\",\"Hostinfo\":{\"OS\":\"" \o x.Node.Hostinfo.OS
    \o "\"}},\"UserProfile\":{\"DisplayName\":\"" \o x.UserProfile.DisplayName
    \o "\",\"LoginName\":\"" \o x.UserProfile.LoginName
    \o "\",\"ProfilePicURL\":\"" \o x.UserProfile.ProfilePicURL \o "\"}}"

\* the node names the daemon answers with
ComputedNames == {"imac5k.local", "imac5k", ".local", "a.b.c", ""}

\* the identity records the daemon answers with
Identities ==
    { WhoIsResponse("Foo Barberson", "foo@bar.com", "https://x/y.png", cn, "Linux") :
        cn \in ComputedNames }

\* json.Unmarshal(slurp, r): the decoded record, or a decode error
Unmarshal(slurp) ==
    IF \E x \in Identities : WhoIsJSON(x) = slurp
    THEN [ok |-> TRUE, r |-> CHOOSE x \in Identities : WhoIsJSON(x) = slurp]
    ELSE [ok |-> FALSE, r |-> NilWho]

\* bodies that are no JSON WhoIsResponse
JunkBodies ==
    {"", "oops", "{\"Node\":", "a\\b\nc"}
    \cup { Repeat("x", n) : n \in (max - 1)..(max + MaxOver) }
    \cup { Repeat("\"", max + MaxOver) }
    \cup { Repeat("x", max - 1) \o "\"" \o Repeat("y", MaxOver) }

\* what tsSockClient.Do(req) can come back with
Replies ==
    {[kind |-> "transport", Status |-> "", StatusCode |-> 0, body |-> ""]}
    \cup {[kind |-> "http", Status |-> "404 Not Found", StatusCode |-> 404,
           body |-> "no match for IP:port"]}
    \cup {[kind |-> "http", Status |-> "200 OK", StatusCode |-> 200, body |-> b] :
            b \in JunkBodies}
    \cup {[kind |-> "http", Status |-> "200 OK", StatusCode |-> 200,
           body |-> WhoIsJSON(x)] : x \in Identities}

NoReply == [kind |-> "none", Status |-> "", StatusCode |-> 0, body |-> ""]

\* the cut taken one byte too long
TruncateOffByOne(slurp) ==
    IF Len(slurp) > max THEN Slice(slurp, 0, max + 1) ELSE slurp

\* the slurp[:max] cut of whoIs's decode-error branch
Truncate(slurp) ==
    IF Len(slurp) > max THEN Slice(slurp, 0, max) ELSE slurp

DecodeErrPrefix == "failed to parse JSON WhoIsResponse from "

\* whoIs(ip) when the daemon answers rep: (who, err), err = "" being nil
whoIs(addr, rep) ==
    IF rep.kind = "transport"
    THEN [who |-> NilWho, err |-> "dial unix: connect: no such file or directory"]
    ELSE IF rep.StatusCode # 200
    THEN [who |-> NilWho, err |-> "HTTP " \o rep.Status \o ": " \o rep.body]
    ELSE LET u == Unmarshal(rep.body)
         IN  IF ~u.ok
             THEN [who |-> NilWho, err |-> DecodeErrPrefix \o Quote(Truncate(rep.body))]
             ELSE [who |-> u.r, err |-> ""]

----------------------------------------------------------------------------
(* net/http and html/template, as far as root uses them *)

StatusFound == 302

\* tmplData
TmplData(dn, ln, pic, mn, os, addr) ==
    [DisplayName |-> dn, LoginName |-> ln, ProfilePicURL |-> pic,
     MachineName |-> mn, MachineOS |-> os, IP |-> addr]

\* var data tmplData: the zero value
ZeroData == TmplData("", "", "", "", "", "")

\* the record root substitutes in dev mode when whoIs fails
FallbackData ==
    TmplData("Taily Scalerson", "taily@scaler.son", "https://placekitten.com/200/200",
             "scaled", "Linux", "100.1.2.3")

\* a ResponseWriter nothing has been written to
EmptyW ==
    [status |-> 0, nWriteHeader |-> 0, ctype |-> "", location |-> "",
     text |-> "", tmplSrc |-> "", rendered |-> ZeroData, complete |-> FALSE]

\* http.Redirect(w, r, url, code) for the two targets root uses: an absolute
\* URL and "/" are both left as they are; GET and HEAD get a short HTML body
Redirect(rw, req, url, code) ==
    [rw EXCEPT !.location = url,
               !.status = code,
               !.nWriteHeader = @ + 1,
               !.ctype = IF req.Method \in {"GET", "HEAD"}
                         THEN "text/html; charset=utf-8" ELSE rw.ctype,
               !.text = IF req.Method = "GET"
                        THEN "<a href=\"" \o url \o "\">Found</a>.\n\n" ELSE ""]

\* http.Error(w, msg, code)
HttpError(rw, msg, code) ==
    [rw EXCEPT !.ctype = "text/plain; charset=utf-8",
               !.status = code,
               !.nWriteHeader = @ + 1,
               !.text = msg \o "\n"]

\* template sources: one that renders, one that parses but fails to execute,
\* one that does not parse
GoodTemplate == "<h1>{{.DisplayName}}</h1>"
ExecFailTemplate == "<h1>{{.DisplayName}}</h1>{{.Nope}}"
BadTemplate == "{{"

NilTmpl == [set |-> FALSE, src |-> ""]

\* template.New("home").Parse(src): (template, err)
Parse(src) ==
    IF Contains(src, "{{") /\ ~Contains(src, "}}")
    THEN [t |-> NilTmpl, err |-> "template: home:1: unclosed action"]
    ELSE [t |-> [set |-> TRUE, src |-> src], err |-> ""]

\* whether t.Execute fails on a tmplData (a field tmplData does not have)
ExecuteFails(t) == Contains(t.src, "{{.Nope}}")

\* tmpl.Execute(w, data): the first Write sends the 200 header; root drops
\* the error Execute returns
Execute(rw, t, d) ==
    [rw EXCEPT !.status = IF rw.status = 0 THEN 200 ELSE rw.status,
               !.nWriteHeader = IF rw.status = 0 THEN @ + 1 ELSE @,
               !.tmplSrc = t.src,
               !.rendered = d,
               !.complete = ~ExecuteFails(t)]

\* what ioutil.ReadFile("hello.tmpl.html") can find on disk in dev mode
MissingFile == [exists |-> FALSE, content |-> ""]
DiskFiles ==
    {MissingFile} \cup
    {[exists |-> TRUE, content |-> c] :
        c \in {GoodTemplate, ExecFailTemplate, BadTemplate}}

\* devMode testing the HTTPS flag alone
devModeHttpsOnly == httpsAddr = ""

\* devMode testing the HTTP flag alone
devModeHttpOnly == httpAddr # ""

\* devMode()
devMode == httpsAddr = "" /\ httpAddr # ""

----------------------------------------------------------------------------
(* The process: flags, main, the listener goroutines *)

Listeners == {"http", "https"}

\* the flag value that enables a listener
Addr(l) == IF l = "http" THEN httpAddr ELSE httpsAddr

\* a request no listener has accepted yet
NoRequest == [TLS |-> FALSE, Host |-> "", RequestURI |-> "", Method |-> "",
              RemoteAddr |-> ""]

Hosts == {"hello.ipn.dev", "100.101.102.103", "x100.101.102.103:80"}
RequestURIs == {"/", "/foo", "//"}
Methods == {"GET", "POST"}
RemoteAddrs == {"100.2.3.4:5555", "[fe80::1]:443", "100.2.3.4"}

\* the state after flag.Parse, with --test-ip left empty
Init ==
    /\ httpAddr \in {"", ":80"}
    /\ httpsAddr \in {"", ":443"}
    /\ embeddedTemplate \in {"", GoodTemplate, ExecFailTemplate, BadTemplate}
    /\ tmpl = NilTmpl
    /\ mainpc = "start"
    /\ proc = "running"
    /\ listener = [l \in Listeners |-> "off"]
    /\ errc = <<>>
    /\ nreq = 0
    /\ rpc = "idle"
    /\ r = NoRequest
    /\ w = EmptyW
    /\ ip = ""
    /\ ltmpl = NilTmpl
    /\ who = NilWho
    /\ err = ""
    /\ data = ZeroData
    /\ reply = NoReply
    /\ stages = <<>>

\* main from the devMode test to the blocking receive on errc: compile the
\* embedded template outside dev mode, then start a goroutine per enabled
\* listener
MainStart ==
    /\ proc = "running"
    /\ mainpc = "start"
    /\ IF ~devMode /\ embeddedTemplate = ""
       THEN /\ proc' = "fatal: embeddedTemplate is empty"
            /\ mainpc' = "exit"
            /\ UNCHANGED <<tmpl, listener>>
       ELSE IF ~devMode /\ Parse(embeddedTemplate).err # ""
       THEN /\ proc' = "panic: template.Must"
            /\ mainpc' = "exit"
            /\ UNCHANGED <<tmpl, listener>>
       ELSE /\ tmpl' = IF ~devMode THEN Parse(embeddedTemplate).t ELSE tmpl
            /\ listener' = [l \in Listeners |->
                              IF Addr(l) # "" THEN "serving" ELSE "off"]
            /\ mainpc' = "recv"
            /\ UNCHANGED proc
    /\ UNCHANGED <<flagVars, errc, reqVars>>

\* http.ListenAndServe / ListenAndServeTLS returns (it only returns an error)
ListenerReturn(l) ==
    /\ proc = "running"
    /\ listener[l] = "serving"
    /\ listener' = [listener EXCEPT ![l] = "returned"]
    /\ UNCHANGED <<flagVars, tmpl, mainpc, proc, errc, reqVars>>

\* errc <- err in the listener's goroutine; errc has room for one value
ListenerSend(l) ==
    /\ proc = "running"
    /\ listener[l] = "returned"
    /\ Len(errc) < 1
    /\ errc' = Append(errc, l)
    /\ listener' = [listener EXCEPT ![l] = "sent"]
    /\ UNCHANGED <<flagVars, tmpl, mainpc, proc, reqVars>>

\* main receiving only once every enabled listener has returned
MainRecvAfterAll ==
    /\ proc = "running"
    /\ mainpc = "recv"
    /\ errc # <<>>
    /\ \A l \in Listeners : listener[l] # "serving"
    /\ errc' = Tail(errc)
    /\ proc' = "fatal: " \o Head(errc) \o " listener"
    /\ mainpc' = "exit"
    /\ UNCHANGED <<flagVars, tmpl, listener, reqVars>>

\* log.Fatal(<-errc)
MainRecv ==
    /\ proc = "running"
    /\ mainpc = "recv"
    /\ errc # <<>>
    /\ errc' = Tail(errc)
    /\ proc' = "fatal: " \o Head(errc) \o " listener"
    /\ mainpc' = "exit"
    /\ UNCHANGED <<flagVars, tmpl, listener, reqVars>>

----------------------------------------------------------------------------
(* One request through root *)

\* the server of listener l hands a request to root; r.TLS is set exactly
\* on the HTTPS listener's connections
Accept(l) ==
    /\ proc = "running"
    /\ listener[l] = "serving"
    /\ rpc \in {"idle", "done"}
    /\ nreq < MaxRequests
    /\ \E h \in Hosts, u \in RequestURIs, m \in Methods, a \in RemoteAddrs :
          r' = [TLS |-> l = "https", Host |-> h, RequestURI |-> u,
                Method |-> m, RemoteAddr |-> a]
    /\ nreq' = nreq + 1
    /\ rpc' = "check"
    /\ w' = EmptyW
    /\ ip' = ""
    /\ ltmpl' = NilTmpl
    /\ who' = NilWho
    /\ err' = ""
    /\ data' = ZeroData
    /\ reply' = NoReply
    /\ stages' = <<>>
    /\ UNCHANGED <<flagVars, procVars>>

\* the host substitution comparing the whole Host instead of searching it
RedirectHostExact(h) ==
    IF h = "100.101.102.103" THEN "hello.ipn.dev" ELSE h

\* host := r.Host; if strings.Contains(r.Host, "100.101.102.103") { ... }
RedirectHost(h) ==
    IF Contains(h, "100.101.102.103") THEN "hello.ipn.dev" ELSE h

\* if r.TLS == nil && *httpsAddr != "" { ... http.Redirect; return }
RootHTTPSRedirectCheck ==
    /\ proc = "running"
    /\ rpc = "check"
    /\ stages' = Append(stages, "HTTPSRedirectCheck")
    /\ IF ~r.TLS /\ httpsAddr # ""
       THEN /\ w' = Redirect(w, r, "https://" \o RedirectHost(r.Host), StatusFound)
            /\ rpc' = "done"
       ELSE /\ rpc' = "path"
            /\ UNCHANGED w
    /\ UNCHANGED <<flagVars, procVars, nreq, r, ip, ltmpl, who, err, data, reply>>

\* the path test letting every URI that starts with a slash through
RootPathCanonicalizePrefix ==
    /\ proc = "running"
    /\ rpc = "path"
    /\ stages' = Append(stages, "PathCanonicalize")
    /\ IF ~HasPrefix(r.RequestURI, "/")
       THEN /\ w' = Redirect(w, r, "/", StatusFound)
            /\ rpc' = "done"
       ELSE /\ rpc' = "addr"
            /\ UNCHANGED w
    /\ UNCHANGED <<flagVars, procVars, nreq, r, ip, ltmpl, who, err, data, reply>>

\* if r.RequestURI != "/" { http.Redirect(w, r, "/", ...); return }
RootPathCanonicalize ==
    /\ proc = "running"
    /\ rpc = "path"
    /\ stages' = Append(stages, "PathCanonicalize")
    /\ IF r.RequestURI # "/"
       THEN /\ w' = Redirect(w, r, "/", StatusFound)
            /\ rpc' = "done"
       ELSE /\ rpc' = "addr"
            /\ UNCHANGED w
    /\ UNCHANGED <<flagVars, procVars, nreq, r, ip, ltmpl, who, err, data, reply>>

\* the address step without the return after http.Error
RootAddressExtractNoReturn ==
    /\ proc = "running"
    /\ rpc = "addr"
    /\ stages' = Append(stages, "AddressExtract")
    /\ LET hp == SplitHostPort(r.RemoteAddr)
       IN  /\ ip' = hp.host
           /\ err' = hp.err
           /\ w' = IF hp.err # "" THEN HttpError(w, "no remote addr", 500) ELSE w
           /\ rpc' = "gettmpl"
    /\ UNCHANGED <<flagVars, procVars, nreq, r, ltmpl, who, data, reply>>

\* ip, _, err := net.SplitHostPort(r.RemoteAddr)
RootAddressExtract ==
    /\ proc = "running"
    /\ rpc = "addr"
    /\ stages' = Append(stages, "AddressExtract")
    /\ LET hp == SplitHostPort(r.RemoteAddr)
       IN  /\ ip' = hp.host
           /\ err' = hp.err
           /\ IF hp.err # ""
              THEN /\ w' = HttpError(w, "no remote addr", 500)
                   /\ rpc' = "done"
              ELSE /\ rpc' = "gettmpl"
                   /\ UNCHANGED w
    /\ UNCHANGED <<flagVars, procVars, nreq, r, ltmpl, who, data, reply>>

\* tmpl, err := getTmpl(): in dev mode slurpHTML reads the file (log.Fatal
\* when it cannot) and the text is parsed; else the package variable
RootGetTmpl ==
    /\ proc = "running"
    /\ rpc = "gettmpl"
    /\ IF devMode
       THEN \E f \in DiskFiles :
              IF ~f.exists
              THEN /\ proc' = "fatal: slurpHTML"
                   /\ stages' = Append(stages, "TemplateRead")
                   /\ UNCHANGED <<rpc, w, ltmpl, err>>
              ELSE LET p == Parse(f.content)
                   IN  /\ stages' = stages \o <<"TemplateRead", "TemplateParse">>
                       /\ ltmpl' = p.t
                       /\ err' = p.err
                       /\ UNCHANGED proc
                       /\ IF p.err # ""
                          THEN /\ w' = HttpError([w EXCEPT !.ctype = "text/plain"],
                                                 "template error: " \o p.err, 500)
                               /\ rpc' = "done"
                          ELSE /\ rpc' = "whois"
                               /\ UNCHANGED w
       ELSE /\ ltmpl' = tmpl
            /\ err' = ""
            /\ stages' = Append(stages, "TemplateGet")
            /\ rpc' = "whois"
            /\ UNCHANGED <<proc, w>>
    /\ UNCHANGED <<flagVars, tmpl, mainpc, listener, errc, nreq, r, ip, who,
                   data, reply>>

\* who, err := whoIs(ip), the daemon answering any of Replies
RootWhoIs ==
    /\ proc = "running"
    /\ rpc = "whois"
    /\ stages' = Append(stages, "Resolve")
    /\ \E rep \in Replies :
          /\ reply' = rep
          /\ who' = whoIs(ip, rep).who
          /\ err' = whoIs(ip, rep).err
    /\ rpc' = "data"
    /\ UNCHANGED <<flagVars, procVars, nreq, r, w, ip, ltmpl, data>>

\* the lookup-failure branch without the dev-mode fallback
RootDataNoFallback ==
    /\ proc = "running"
    /\ rpc = "data"
    /\ IF err # ""
       THEN /\ w' = HttpError(w,
                   "Your Tailscale works, but we failed to look you up.", 500)
            /\ rpc' = "done"
            /\ UNCHANGED data
       ELSE /\ data' = TmplData(who.UserProfile.DisplayName,
                                who.UserProfile.LoginName,
                                who.UserProfile.ProfilePicURL,
                                firstLabel(who.Node.ComputedName),
                                who.Node.Hostinfo.OS,
                                ip)
            /\ rpc' = "execute"
            /\ UNCHANGED w
    /\ UNCHANGED <<flagVars, procVars, nreq, r, ip, ltmpl, who, err, reply, stages>>

\* var data tmplData; if err != nil { dev: fake data; else 500, return }
\* else { data from who }
RootData ==
    /\ proc = "running"
    /\ rpc = "data"
    /\ IF err # ""
       THEN IF devMode
            THEN /\ data' = FallbackData
                 /\ rpc' = "execute"
                 /\ UNCHANGED w
            ELSE /\ w' = HttpError(w,
                        "Your Tailscale works, but we failed to look you up.", 500)
                 /\ rpc' = "done"
                 /\ UNCHANGED data
       ELSE /\ data' = TmplData(who.UserProfile.DisplayName,
                                who.UserProfile.LoginName,
                                who.UserProfile.ProfilePicURL,
                                firstLabel(who.Node.ComputedName),
                                who.Node.Hostinfo.OS,
                                ip)
            /\ rpc' = "execute"
            /\ UNCHANGED w
    /\ UNCHANGED <<flagVars, procVars, nreq, r, ip, ltmpl, who, err, reply, stages>>

\* w.Header().Set("Content-Type", ...); tmpl.Execute(w, data)
RootExecute ==
    /\ proc = "running"
    /\ rpc = "execute"
    /\ stages' = Append(stages, "Execute")
    /\ w' = Execute([w EXCEPT !.ctype = "text/html; charset=utf-8"], ltmpl, data)
    /\ rpc' = "done"
    /\ UNCHANGED <<flagVars, procVars, nreq, r, ip, ltmpl, who, err, data, reply>>

----------------------------------------------------------------------------

Next ==
    \/ MainStart
    \/ \E l \in Listeners : ListenerReturn(l)
    \/ \E l \in Listeners : ListenerSend(l)
    \/ MainRecv
    \/ \E l \in Listeners : Accept(l)
    \/ RootHTTPSRedirectCheck
    \/ RootPathCanonicalize
    \/ RootAddressExtract
    \/ RootGetTmpl
    \/ RootWhoIs
    \/ RootData
    \/ RootExecute

Spec == Init /\ [][Next]_vars

\* the Go scheduler runs every runnable goroutine: a listener goroutine that
\* can send on errc does, and main receives once a value is there
FairSpec ==
    /\ Spec
    /\ WF_vars(MainRecv)
    /\ \A l \in Listeners : WF_vars(ListenerSend(l))

----------------------------------------------------------------------------
(* Properties *)

\* a request is in root or has left it
InRequest == rpc # "idle"
Done == rpc = "done"

\* the request came over plain HTTP while an HTTPS address is configured
PlainWithHTTPS == InRequest /\ ~r.TLS /\ httpsAddr # ""

\* whoIs was called for the request and the daemon's answer makes it fail:
\* no answer, a status other than 200, or a body that is no WhoIsResponse
ResolveFailed ==
    /\ InRequest
    /\ \/ reply.kind = "transport"
       \/ reply.kind = "http" /\ reply.StatusCode # 200
       \/ reply.kind = "http" /\ \A x \in Identities : WhoIsJSON(x) # reply.body

\* whoIs was called and the daemon answered 200 with a WhoIsResponse
ResolveSucceeded ==
    /\ InRequest
    /\ reply.kind = "http"
    /\ reply.StatusCode = 200
    /\ \E x \in Identities : WhoIsJSON(x) = reply.body

LookupFailedText == "Your Tailscale works, but we failed to look you up.\n"

\* C1: a request over plain HTTP while an HTTPS address is configured never
\* gets past the first check, whatever its path, method or remote address,
\* and ends as one 302 to "https://" + Host, with hello.ipn.dev for the host
\* when Host contains 100.101.102.103; no whoIs call, no template work.
C1_PlainHTTPRedirect ==
    PlainWithHTTPS =>
        /\ rpc \in {"check", "done"}
        /\ reply = NoReply
        /\ ltmpl = NilTmpl
        /\ Done =>
            /\ stages = <<"HTTPSRedirectCheck">>
            /\ w.status = 302
            /\ w.nWriteHeader = 1
            /\ w.tmplSrc = ""
            /\ IF \E i \in 1..(Len(r.Host) - 14) :
                     SubSeq(r.Host, i, i + 14) = "100.101.102.103"
               THEN w.location = "https://hello.ipn.dev"
               ELSE w.location = "https://" \o r.Host

C1_Witness ==
    /\ PlainWithHTTPS /\ Done
    /\ r.Host = "x100.101.102.103:80"
    /\ r.RequestURI = "/foo"
    /\ r.Method = "POST"
    /\ r.RemoteAddr = "100.2.3.4"
    /\ w.location = "https://hello.ipn.dev"

\* C2 as stated: every finished request whose URI is not exactly "/" was
\* answered with a 302 to "/".
C2_AnyNonRootRedirectsToRoot ==
    (Done /\ r.RequestURI # "/") => (w.status = 302 /\ w.location = "/")

\* C2 amended: every finished request whose URI is not exactly "/" and that
\* the HTTPS check let through (it came over TLS, or no HTTPS address is
\* configured) was answered with one 302 to "/", whatever its method, and
\* went no further.
C2_NonRootRedirectsToRoot ==
    (InRequest /\ r.RequestURI # "/" /\ (r.TLS \/ httpsAddr = "")) =>
        /\ rpc \in {"check", "path", "done"}
        /\ Done =>
            /\ stages = <<"HTTPSRedirectCheck", "PathCanonicalize">>
            /\ w.status = 302
            /\ w.nWriteHeader = 1
            /\ w.location = "/"

C2_Witness ==
    /\ Done /\ r.TLS /\ r.RequestURI = "//" /\ r.Method = "POST"
    /\ w.status = 302 /\ w.location = "/"

\* C3: with no HTTPS address configured (dev mode), a request whose whoIs
\* call failed ends as a 200 rendered from the fixed fallback record, never
\* as an error response.
C3_DevFallback ==
    (ResolveFailed /\ httpsAddr = "") =>
        /\ rpc \in {"data", "execute", "done"}
        /\ w.status \in {0, 200}
        /\ rpc \in {"execute", "done"} => data = FallbackData
        /\ Done =>
            /\ w.status = 200
            /\ w.nWriteHeader = 1
            /\ w.ctype = "text/html; charset=utf-8"
            /\ w.rendered =
                 [DisplayName |-> "Taily Scalerson", LoginName |-> "taily@scaler.son",
                  ProfilePicURL |-> "https://placekitten.com/200/200",
                  MachineName |-> "scaled", MachineOS |-> "Linux", IP |-> "100.1.2.3"]

C3_Witness ==
    /\ Done /\ httpsAddr = "" /\ ResolveFailed
    /\ reply.StatusCode = 200
    /\ w.status = 200 /\ w.rendered.LoginName = "taily@scaler.son"

\* C4: with an HTTPS address configured (production), a request whose whoIs
\* call failed ends as exactly one response, the 500 with the fixed text;
\* the fallback record is not used and the template is not executed.
C4_ProdLookupFailure ==
    (ResolveFailed /\ httpsAddr # "") =>
        /\ rpc \in {"data", "done"}
        /\ data = ZeroData
        /\ "Execute" \notin {stages[i] : i \in 1..Len(stages)}
        /\ Done =>
            /\ w.status = 500
            /\ w.nWriteHeader = 1
            /\ w.ctype = "text/plain; charset=utf-8"
            /\ w.text = LookupFailedText
            /\ w.tmplSrc = ""
            /\ w.rendered = ZeroData

C4_Witness ==
    /\ Done /\ httpsAddr # "" /\ ResolveFailed /\ reply.kind = "transport"
    /\ w.status = 500 /\ w.text = LookupFailedText

StageSet == {stages[i] : i \in 1..Len(stages)}

\* the template step of the request could not parse the file it read
ParseFailed ==
    /\ Done
    /\ Len(stages) > 0
    /\ stages[Len(stages)] = "TemplateParse"
    /\ \E f \in DiskFiles : f.exists /\ Parse(f.content).err = err /\ err # ""

\* the request executed a template and Execute returned an error
ExecuteFailed == Done /\ "Execute" \in StageSet /\ ~w.complete

\* C5 as stated: no template failure ends the process, and a request in
\* which reading, parsing or executing the template failed ends as a 500
\* whose plain text holds the error; none ends as a 200.
C5_TemplateFailuresReported ==
    /\ proc # "fatal: slurpHTML"
    /\ (ParseFailed \/ ExecuteFailed) =>
          /\ w.status = 500
          /\ HasPrefix(w.text, "template error: ")

\* the part of C5 the code does: a parse failure is answered with the 500
C5_ParseFailureReported ==
    ParseFailed =>
        /\ w.status = 500
        /\ w.text = "template error: " \o err \o "\n"

\* what the startup of main did: compiled the embedded template or not
Started == mainpc = "recv"

\* C6 as stated: for every pair of flag values the embedded template is
\* left uncompiled (dev) exactly when no HTTPS address is configured.
C6_DevIffNoHTTPS ==
    Started => (~tmpl.set <=> httpsAddr = "")

\* C6 amended, the states: the run is in dev mode exactly when no HTTPS
\* address and some HTTP address is configured; every request reads the
\* template from disk and falls back on a failed lookup exactly in that
\* mode, and uses the template compiled at startup otherwise.
C6_ModeInv ==
    LET dev == httpsAddr = "" /\ httpAddr # ""
    IN  /\ Started => (~tmpl.set <=> dev)
        /\ (~dev /\ mainpc # "start" /\ ~tmpl.set) => proc # "running"
        /\ "TemplateRead" \in StageSet => dev
        /\ "TemplateGet" \in StageSet => (~dev /\ ltmpl = tmpl /\ tmpl.set)
        /\ (InRequest /\ rpc \in {"execute", "done"} /\ ResolveFailed) =>
              IF dev THEN data = FallbackData /\ w.status \in {0, 200}
              ELSE w.status = 500 /\ w.text = LookupFailedText

\* C6 amended: C6_ModeInv in every state, and no step changes a flag.
C6_ModeFixed ==
    /\ []C6_ModeInv
    /\ [][httpAddr' = httpAddr /\ httpsAddr' = httpsAddr]_vars

C6_Witness ==
    /\ nreq = 2 /\ Done /\ httpsAddr = "" /\ httpAddr # ""
    /\ "TemplateRead" \in StageSet /\ ResolveFailed /\ w.status = 200

----------------------------------------------------------------------------
(* Reading a Go string literal back: the inverse of %q *)

\* the byte an escape sequence \c stands for
Unescape(c) == IF c = "n" THEN "\n" ELSE c

\* how many backslashes end at position m of q
BackslashRun(q, m) ==
    LET start == IF \E j \in 1..m : At(q, j) # "\\"
                 THEN CHOOSE j \in 1..m :
                        At(q, j) # "\\" /\ \A k \in (j + 1)..m : At(q, k) = "\\"
                 ELSE 0
    IN  m - start

RECURSIVE UnquoteBytes(_)
\* the bytes an escaped text stands for; the text is cut between two
\* tokens (a plain byte, or a backslash and the byte after it)
UnquoteBytes(q) ==
    IF Len(q) <= 1 THEN q
    ELSE IF Len(q) = 2 /\ At(q, 1) = "\\" THEN Unescape(At(q, 2))
    ELSE LET m == Len(q) \div 2
             cut == IF BackslashRun(q, m) % 2 = 1 THEN m + 1 ELSE m
         IN  UnquoteBytes(SubSeq(q, 1, cut)) \o UnquoteBytes(SubSeq(q, cut + 1, Len(q)))

\* q is a double-quoted literal
IsLiteral(q) == Len(q) >= 2 /\ At(q, 1) = "\"" /\ At(q, Len(q)) = "\""

Unquote(q) == UnquoteBytes(SubSeq(q, 2, Len(q) - 1))

\* whoIs was called and failed to decode a 200 body
DecodeFailed ==
    /\ InRequest
    /\ reply.kind = "http"
    /\ reply.StatusCode = 200
    /\ \A x \in Identities : WhoIsJSON(x) # reply.body

\* the first 200 bytes of the body the daemon sent
KeptBody == SubSeq(reply.body, 1, Min(Len(reply.body), 200))

\* what follows the fixed words in the error whoIs returned
ErrTail == SubSeq(err, Len(DecodeErrPrefix) + 1, Len(err))

\* C7 as stated: the decode error holds the first 200 characters of the
\* body as they are, and never a body longer than that.
C7_RawPrefixInError ==
    DecodeFailed =>
        /\ Contains(err, KeptBody)
        /\ Len(reply.body) > 200 => ~Contains(err, reply.body)

\* C7 amended: the decode error is the fixed words followed by a Go string
\* literal (%q) of the first 200 bytes of the body, the whole body when it
\* has 200 or fewer: read back, the literal is exactly those bytes, so never
\* more than 200 and never a longer body; it shows them unchanged when none
\* of them is a quote, a backslash or a control byte.
C7_QuotedPrefixInError ==
    DecodeFailed =>
        /\ HasPrefix(err, DecodeErrPrefix)
        /\ IsLiteral(ErrTail)
        /\ Unquote(ErrTail) = KeptBody
        /\ Len(Unquote(ErrTail)) <= 200
        /\ (\A i \in 1..Len(KeptBody) : At(KeptBody, i) \notin {"\"", "\\", "\n"})
              => ErrTail = "\"" \o KeptBody \o "\""

C7_Witness ==
    /\ DecodeFailed
    /\ Len(reply.body) = 202
    /\ At(reply.body, 200) = "\""
    /\ Len(ErrTail) = 203

----------------------------------------------------------------------------

\* C8: whichever enabled listener returns (ListenAndServe only returns an
\* error), first or second, the other still serving or not, the process
\* then ends: a returned listener never stays beside a running process.
C8_ListenerFailureIsFatal ==
    \A l \in Listeners : (listener[l] = "returned") ~> (proc # "running")

C8_Witness ==
    /\ proc = "fatal: https listener"
    /\ listener["http"] = "serving"
    /\ listener["https"] = "sent"
    /\ rpc = "whois"

\* p is s up to its first period: all of s when s has none
IsFirstLabelOf(p, s) ==
    /\ \A i \in 1..Len(p) : At(p, i) # "."
    /\ \/ p = s
       \/ Len(s) > Len(p) /\ SubSeq(s, 1, Len(p) + 1) = p \o "."

\* h is the host of the address a: a is h:port or [h]:port
IsHostOf(h, a) ==
    \E k \in 1..Len(a) :
        LET port == SubSeq(a, k + 1, Len(a))
        IN  /\ \A i \in 1..Len(port) : At(port, i) # ":"
            /\ a \in {h \o ":" \o port, "[" \o h \o "]:" \o port}

\* C9: once whoIs has succeeded, the record root builds and passes to the
\* template has the display name, login name, avatar URL and OS of the
\* answer, the host of the remote address as IP, and as MachineName the
\* node's computed name up to its first period.
C9_RecordFromAnswer ==
    (ResolveSucceeded /\ rpc \in {"execute", "done"}) =>
        \E x \in Identities :
            /\ WhoIsJSON(x) = reply.body
            /\ data.DisplayName = x.UserProfile.DisplayName
            /\ data.LoginName = x.UserProfile.LoginName
            /\ data.ProfilePicURL = x.UserProfile.ProfilePicURL
            /\ data.MachineOS = x.Node.Hostinfo.OS
            /\ IsHostOf(data.IP, r.RemoteAddr)
            /\ IsFirstLabelOf(data.MachineName, x.Node.ComputedName)
            /\ Done => (w.status = 200 /\ w.rendered = data)

C9_Witness ==
    /\ Done /\ ResolveSucceeded
    /\ who.Node.ComputedName = "a.b.c"
    /\ w.rendered.MachineName = "a"
    /\ r.RemoteAddr = "[fe80::1]:443"
    /\ w.rendered.IP = "fe80::1"

\* the template steps of root that read, parse or execute a template
TemplateWork == {"TemplateRead", "TemplateParse", "Execute"}

\* C10 as stated: no template is read, parsed or executed before the whoIs
\* call has returned, and no request ends with a template error without
\* whoIs having been called.
C10_TemplateAfterResolve ==
    /\ \A i \in 1..Len(stages) :
          stages[i] \in TemplateWork => \E j \in 1..(i - 1) : stages[j] = "Resolve"
    /\ (Done /\ HasPrefix(w.text, "template error: ")) => "Resolve" \in StageSet

\* the order of root's steps: dev mode reads and parses the template
\* file, otherwise the compiled template is taken, before whoIs is called
StageOrder ==
    <<"HTTPSRedirectCheck", "PathCanonicalize", "AddressExtract">>
    \o (IF httpsAddr = "" /\ httpAddr # ""
        THEN <<"TemplateRead", "TemplateParse">> ELSE <<"TemplateGet">>)
    \o <<"Resolve", "Execute">>

\* C10 amended: every request runs HTTPSRedirectCheck, PathCanonicalize,
\* AddressExtract, the template load (in dev mode reading and parsing the
\* file), Resolve and the template execution in that order and stops at the
\* first terminal step: whoIs is called only after the address was
\* extracted and the template loaded without error, the template is
\* executed only after whoIs has returned, and a request that ends with a
\* template error has not called whoIs.
C10_StageOrder ==
    /\ Len(stages) <= Len(StageOrder)
    /\ stages = SubSeq(StageOrder, 1, Len(stages))
    /\ "Resolve" \in StageSet =>
          /\ IsHostOf(ip, r.RemoteAddr)
          /\ ltmpl.set
          /\ w.status \in {0, 200} \/ w.text = LookupFailedText
    /\ "Execute" \in StageSet => reply # NoReply
    /\ (Done /\ HasPrefix(w.text, "template error: ")) =>
          (reply = NoReply /\ "Resolve" \notin StageSet)

C10_Witness ==
    /\ Done
    /\ stages = <<"HTTPSRedirectCheck", "PathCanonicalize", "AddressExtract",
                  "TemplateRead", "TemplateParse">>
    /\ w.status = 500
    /\ HasPrefix(w.text, "template error: ")
    /\ reply = NoReply

====
